---- MODULE Spec2Model ----
(***************************************************************************)
(* Model of src/lib/section/print.html.ts: the HTML schema printer of      *)
(* graphdoc (class HTMLDocumentSchemaPlugin and its helper functions).     *)
(*                                                                         *)
(* A JavaScript string is modelled as a sequence of pieces, each piece a   *)
(* TLA+ string; string concatenation (+) is \o.  A newline is always a     *)
(* piece of its own ("\n"), and the characters of names, descriptions and  *)
(* deprecation reasons are one piece per character, so that prefixes,      *)
(* lengths, whitespace and collation are computed and not assumed.         *)
(* An optional value (T | null | undefined) is a sequence of length 0      *)
(* (absent) or 1 (present).                                                *)
(***************************************************************************)
EXTENDS Integers, Sequences, FiniteSets, TLC

VARIABLES
  title, url,              \* this.title, this.url (constructor)
  op,                      \* the operation last called, "new" before a call
  argText, argLen,         \* breakText: the text and the width
  retLines,                \* breakText: the lines returned
  argType, retLink,        \* useIdentifier: the type reference, the markup
  argField, retMarker,     \* deprecated: the field or enum value, the marker
  argInput, retSection     \* getSections: the schema or type, the section

config == <<title, url>>

breakVars == <<argText, argLen, retLines>>

identVars == <<argType, retLink>>

deprVars == <<argField, retMarker>>

sectionVars == <<argInput, retSection>>

vars == <<title, url, op, argText, argLen, retLines, argType, retLink, argField, retMarker,
          argInput, retSection>>

----------------------------------------------------------------------------
(* Bounds of the model *)

MaxLen == 5
MaxWidth == 3
MaxDepth == 3
MaxDecls == 2
MaxReason == 2

----------------------------------------------------------------------------
(* Generic string and array helpers (JavaScript built-ins) *)

Absent == <<>>

Some(v) == <<v>>

NL == "\n"

RECURSIVE Concat(_)
Concat(ss) == IF ss = <<>> THEN <<>> ELSE Head(ss) \o Concat(Tail(ss))

RECURSIVE Join(_, _)
Join(ss, sep) ==
  IF ss = <<>> THEN <<>>
  ELSE IF Len(ss) = 1 THEN ss[1]
  ELSE ss[1] \o sep \o Join(Tail(ss), sep)

Map(s, F(_)) == [i \in 1..Len(s) |-> F(s[i])]

WhiteSpace == {" ", "\n", "\t"}

\* text.split(/\s+/): the pieces between maximal whitespace runs; a leading
\* or trailing run leaves an empty string at that end, "" gives [""].
RECURSIVE SkipSpace(_, _)
SkipSpace(text, i) ==
  IF i <= Len(text) /\ text[i] \in WhiteSpace THEN SkipSpace(text, i + 1) ELSE i

RECURSIVE SplitFrom(_, _, _, _)
SplitFrom(text, i, cur, acc) ==
  IF i > Len(text) THEN Append(acc, cur)
  ELSE IF text[i] \in WhiteSpace
       THEN SplitFrom(text, SkipSpace(text, i), <<>>, Append(acc, cur))
       ELSE SplitFrom(text, i + 1, Append(cur, text[i]), acc)

Split(text) == SplitFrom(text, 1, <<>>, <<>>)

----------------------------------------------------------------------------
(* breakText, lines 18-37 *)

\* One pass of the while loop: shift a word, append it to the line, and
\* flush the line once it has become longer than len.
AppendWord(line, word) == line \o (IF Len(line) > 0 THEN <<" ">> ELSE <<>>) \o word

RECURSIVE BreakLoop(_, _, _, _)
BreakLoop(words, lines, line, len) ==
  IF words = <<>>
  THEN IF Len(line) > 0 THEN Append(lines, line) ELSE lines
  ELSE LET l2 == AppendWord(line, Head(words))
       IN IF Len(l2) > len
          THEN BreakLoop(Tail(words), Append(lines, l2), <<>>, len)
          ELSE BreakLoop(Tail(words), lines, l2, len)

breakText(text, len) == BreakLoop(Split(text), <<>>, <<>>, len)

----------------------------------------------------------------------------
(* Markup Emitter, lines 39-83 *)

keyword(key) == <<"<span class=\"keyword operator ts\">">> \o key \o <<"</span>">>

identifier(key) == <<"<span class=\"identifier\">">> \o key \o <<"</span>">>

parameter(key) == <<"<span class=\"variable parameter\">">> \o key \o <<"</span>">>

comment(key) == <<"<span class=\"comment line\"># ">> \o key \o <<"</span>">>

property(key) == <<"<span class=\"meta\">">> \o key \o <<"</span>">>

val(key) == <<"<span class=\"string\">">> \o key \o <<"</span>">>

----------------------------------------------------------------------------
(* Type references.  A GraphQLType used as a reference is the chain of its *)
(* List/NonNull wrappers, outermost first, around a named type, of which   *)
(* the printer reads the name and the description.                         *)

NamedRef(t) == [wraps |-> <<>>, name |-> t.name, description |-> t.description]

Wrap(w, r) == [r EXCEPT !.wraps = <<w>> \o @]

\* The caller's ResolveURL: a function of the type's name.
ResolveURL(resolver, t) ==
  IF resolver = "hash" THEN <<"#">> \o t.name ELSE t.name \o <<".doc.html">>

\* Variant of PeelWrappers that keeps the first marker set (the outermost
\* wrapper's) instead of overwriting it.
RECURSIVE PeelWrappersKeepFirst(_, _)
PeelWrappersKeepFirst(wraps, usedAs) ==
  IF wraps = <<>> THEN usedAs
  ELSE PeelWrappersKeepFirst(Tail(wraps),
         IF usedAs # <<>> THEN usedAs
         ELSE IF Head(wraps) = "List" THEN <<"[]">> ELSE <<"!">>)

\* lines 52-61: each wrapper peeled overwrites usedAs.
RECURSIVE PeelWrappers(_, _)
PeelWrappers(wraps, usedAs) ==
  IF wraps = <<>> THEN usedAs
  ELSE PeelWrappers(Tail(wraps), IF Head(wraps) = "List" THEN <<"[]">> ELSE <<"!">>)

useIdentifier(t, href) ==
  LET peeled == PeelWrappers(t.wraps, <<>>)
      usedAs == IF peeled # <<>>
                THEN <<"<span class=\"variable language\">">> \o peeled \o <<"</span>">>
                ELSE peeled
  IN <<"<a class=\"support type\" href=\"">> \o href \o <<"\" title=\"">>
       \o (IF t.description # <<>> THEN t.description ELSE t.name)
       \o <<"\">">> \o t.name \o <<"</a>">> \o usedAs

----------------------------------------------------------------------------
(* Filter Policy, lines 87-111 *)

\* Variant of isSpecDirective that forgets 'deprecated'.
isSpecDirectiveSkipInclude(directiveName) ==
  \/ directiveName = <<"s","k","i","p">>
  \/ directiveName = <<"i","n","c","l","u","d","e">>

isSpecDirective(directiveName) ==
  \/ directiveName = <<"s","k","i","p">>
  \/ directiveName = <<"i","n","c","l","u","d","e">>
  \/ directiveName = <<"d","e","p","r","e","c","a","t","e","d">>

\* typename.indexOf('__') === 0
isIntrospectionType(typename) ==
  Len(typename) >= 2 /\ typename[1] = "_" /\ typename[2] = "_"

isBuiltInScalar(typename) ==
  \/ typename = <<"S","t","r","i","n","g">>
  \/ typename = <<"B","o","o","l","e","a","n">>
  \/ typename = <<"I","n","t">>
  \/ typename = <<"F","l","o","a","t">>
  \/ typename = <<"I","D">>

isDefinedType(typename) == ~isIntrospectionType(typename) /\ ~isBuiltInScalar(typename)

----------------------------------------------------------------------------
(* Library primitives the printer calls *)

\* isNullish (../utility): the value is null or undefined.
isNullish(v) == v = Absent

\* DEFAULT_DEPRECATION_REASON (graphql/type/directives): 'No longer supported'
DEFAULT_DEPRECATION_REASON ==
  <<"N","o"," ","l","o","n","g","e","r"," ","s","u","p","p","o","r","t","e","d">>

Digit(d) == <<"0","1","2","3","4","5","6","7","8","9">>[d + 1]

RECURSIVE Digits(_)
Digits(n) == IF n < 10 THEN <<Digit(n)>> ELSE Digits(n \div 10) \o <<Digit(n % 10)>>

RECURSIVE Escape(_)
Escape(s) ==
  IF s = <<>> THEN <<>>
  ELSE (IF Head(s) = "\"" THEN <<"\\", "\"">>
        ELSE IF Head(s) = "\\" THEN <<"\\", "\\">>
        ELSE <<Head(s)>>) \o Escape(Tail(s))

\* print(astFromValue(value, type)): the literal of a value of a scalar type,
\* a string quoted and escaped, a number in decimal, a boolean as its name.
PrintLiteral(v) ==
  IF v.k = "string" THEN <<"\"">> \o Escape(v.s) \o <<"\"">>
  ELSE IF v.k = "int" THEN (IF v.n < 0 THEN <<"-">> \o Digits(-v.n) ELSE Digits(v.n))
  ELSE IF v.b THEN <<"true">> ELSE <<"false">>

StringValue(s) == [k |-> "string", s |-> s, n |-> 0, b |-> FALSE]

IntValue(n) == [k |-> "int", s |-> <<>>, n |-> n, b |-> FALSE]

BooleanValue(b) == [k |-> "boolean", s |-> <<>>, n |-> 0, b |-> b]

\* String.prototype.localeCompare on names ([_0-9A-Za-z]): the names'
\* letters compared without case first, '_' before digits before letters,
\* and for names equal without case the lower-case letter first.
LowerCase == <<"a","b","c","d","e","f","g","h","i","j","k","l","m",
               "n","o","p","q","r","s","t","u","v","w","x","y","z">>

UpperCase == <<"A","B","C","D","E","F","G","H","I","J","K","L","M",
               "N","O","P","Q","R","S","T","U","V","W","X","Y","Z">>

Digits09 == <<"0","1","2","3","4","5","6","7","8","9">>

IndexIn(s, c) == CHOOSE i \in 1..Len(s) : s[i] = c

InSeq(s, c) == \E i \in 1..Len(s) : s[i] = c

PrimaryWeight(c) ==
  IF c = "_" THEN 0
  ELSE IF InSeq(Digits09, c) THEN IndexIn(Digits09, c)
  ELSE IF InSeq(LowerCase, c) THEN 10 + IndexIn(LowerCase, c)
  ELSE 10 + IndexIn(UpperCase, c)

TertiaryWeight(c) == IF InSeq(UpperCase, c) THEN 1 ELSE 0

\* -1, 0 or 1 as the weights a come before, with or after the weights b.
RECURSIVE CompareWeights(_, _)
CompareWeights(a, b) ==
  IF a = <<>> /\ b = <<>> THEN 0
  ELSE IF a = <<>> THEN -1
  ELSE IF b = <<>> THEN 1
  ELSE IF Head(a) < Head(b) THEN -1
  ELSE IF Head(a) > Head(b) THEN 1
  ELSE CompareWeights(Tail(a), Tail(b))

localeCompare(name1, name2) ==
  LET p == CompareWeights(Map(name1, PrimaryWeight), Map(name2, PrimaryWeight))
  IN IF p # 0 THEN p
     ELSE CompareWeights(Map(name1, TertiaryWeight), Map(name2, TertiaryWeight))

\* Array.prototype.sort((name1, name2) => name1.localeCompare(name2)): a
\* stable sort by the comparator.
\* Variant of SortNames: Array.prototype.sort() without a comparator, which
\* orders by UTF-16 code unit (digits, upper case, '_', lower case).
CodeUnit(c) ==
  IF InSeq(Digits09, c) THEN 47 + IndexIn(Digits09, c)
  ELSE IF InSeq(UpperCase, c) THEN 64 + IndexIn(UpperCase, c)
  ELSE IF c = "_" THEN 95
  ELSE 96 + IndexIn(LowerCase, c)

RECURSIVE InsertByCodeUnit(_, _)
InsertByCodeUnit(sorted, name) ==
  IF sorted = <<>> THEN <<name>>
  ELSE IF CompareWeights(Map(name, CodeUnit), Map(Head(sorted), CodeUnit)) < 0
       THEN <<name>> \o sorted
       ELSE <<Head(sorted)>> \o InsertByCodeUnit(Tail(sorted), name)

RECURSIVE SortNamesByCodeUnit(_)
SortNamesByCodeUnit(names) ==
  IF names = <<>> THEN <<>>
  ELSE InsertByCodeUnit(SortNamesByCodeUnit(SubSeq(names, 1, Len(names) - 1)),
                        names[Len(names)])

RECURSIVE InsertSorted(_, _)
InsertSorted(sorted, name) ==
  IF sorted = <<>> THEN <<name>>
  ELSE IF localeCompare(name, Head(sorted)) < 0 THEN <<name>> \o sorted
  ELSE <<Head(sorted)>> \o InsertSorted(Tail(sorted), name)

RECURSIVE SortNames(_)
SortNames(names) ==
  IF names = <<>> THEN <<>>
  ELSE InsertSorted(SortNames(SubSeq(names, 1, Len(names) - 1)), names[Len(names)])

----------------------------------------------------------------------------
(* class HTMLDocumentSchemaPlugin, lines 113-332.  this.url is the state   *)
(* variable url.                                                           *)

\* lines 329-331
value(v, t) == val(PrintLiteral(v))

\* lines 241-247
inputValue(a) ==
  LET defaultValue == IF isNullish(a.defaultValue) THEN <<>>
                      ELSE <<" = ">> \o value(a.defaultValue[1], a.type)
  IN a.name \o <<": ">> \o useIdentifier(a.type, ResolveURL(url, a.type)) \o defaultValue

\* lines 139-151
args(fieldOrDirectives) ==
  IF Len(fieldOrDirectives.args) = 0 THEN <<>>
  ELSE <<"(">> \o Join(Map(fieldOrDirectives.args, inputValue), <<", ">>) \o <<")">>

\* Variant of deprecated that tests only for the default reason text.
deprecatedDefaultOnly(fieldOrEnumVal) ==
  LET reason == fieldOrEnumVal.deprecationReason
  IN IF isNullish(reason) THEN <<>>
     ELSE IF reason[1] = DEFAULT_DEPRECATION_REASON
          THEN <<" ">> \o keyword(<<"@deprecated">>)
          ELSE <<" ">> \o keyword(<<"@deprecated">>)
                 \o <<"(">> \o parameter(<<"reason">>) \o <<": ">>
                 \o val(value(StringValue(reason[1]), "String")) \o <<")">>

\* lines 153-167
deprecated(fieldOrEnumVal) ==
  LET reason == fieldOrEnumVal.deprecationReason
  IN IF isNullish(reason) THEN <<>>
     ELSE IF reason[1] = <<>> \/ reason[1] = DEFAULT_DEPRECATION_REASON
          THEN <<" ">> \o keyword(<<"@deprecated">>)
          ELSE <<" ">> \o keyword(<<"@deprecated">>)
                 \o <<"(">> \o parameter(<<"reason">>) \o <<": ">>
                 \o val(value(StringValue(reason[1]), "String")) \o <<")">>

DescLine(descriptionLine) == <<"  ">> \o comment(descriptionLine)

\* lines 169-175
desc(description) ==
  IF description # <<>>
  THEN Join(Map(breakText(description, 50), DescLine), <<NL>>) \o <<NL>>
  ELSE <<>>

LocationKeyword(location) == keyword(<<location>>)

\* lines 177-181
directive(d) ==
  keyword(<<"directive">>)
    \o <<" ">> \o keyword(<<"@">> \o d.name) \o args(d)
    \o <<" on ">> \o Join(Map(d.locations, LocationKeyword), <<" | ">>)

EnumValueLine(v) ==
  <<NL>> \o desc(v.description) \o <<"  ">> \o property(v.name) \o deprecated(v)

\* lines 183-188 (enum)
enumType(t) ==
  keyword(<<"enum">>) \o <<" ">> \o identifier(t.name) \o <<" {", NL>>
    \o Join(Map(t.values, EnumValueLine), <<NL>>) \o <<NL>>
    \o <<"}">>

\* lines 190-195
field(f) ==
  <<NL>> \o desc(f.description)
    \o <<"  ">> \o property(f.name) \o args(f) \o <<": ">>
    \o useIdentifier(f.type, ResolveURL(url, f.type)) \o deprecated(f)

\* lines 197-207
fields(t) == Join(Map(t.fields, field), <<NL>>)

InputFieldLine(f) == <<"  ">> \o inputValue(f)

\* lines 233-239
inputObject(t) ==
  keyword(<<"input">>) \o <<" ">> \o identifier(t.name) \o <<" {", NL>>
    \o Join(Map(t.fields, InputFieldLine), <<NL>>) \o <<NL>>
    \o <<"}">>

\* lines 249-253
interfaces(t) ==
  keyword(<<"interface">>) \o <<" ">> \o identifier(t.name) \o <<" {", NL>>
    \o fields(t) \o <<NL>>
    \o <<"}">>

LinkTo(t) == useIdentifier(t, ResolveURL(url, t))

\* lines 255-268
object(t) ==
  LET implementedInterfaces ==
        IF Len(t.interfaces) # 0
        THEN <<" ">> \o keyword(<<"implements">>) \o <<" ">>
               \o Join(Map(t.interfaces, LinkTo), <<", ">>)
        ELSE <<>>
  IN keyword(<<"type">>) \o <<" ">> \o identifier(t.name) \o implementedInterfaces
       \o <<" {", NL>>
       \o fields(t) \o <<NL>>
       \o <<"}">>

\* lines 270-272
scalar(t) == keyword(<<"scalar">>) \o <<" ">> \o identifier(t.name)

\* lines 323-327
union(t) ==
  keyword(<<"union">>) \o t.name \o <<" = ">> \o Join(Map(t.types, LinkTo), <<" | ">>)

\* Variant of type without the branch for union types.
typeWithoutUnion(t) ==
  IF t.kind = "Scalar" THEN Some(scalar(t))
  ELSE IF t.kind = "Object" THEN Some(object(t))
  ELSE IF t.kind = "Interface" THEN Some(interfaces(t))
  ELSE IF t.kind = "Enum" THEN Some(enumType(t))
  ELSE IF t.kind = "InputObject" THEN Some(inputObject(t))
  ELSE Absent

\* lines 299-321: the definition, or null (Absent) for a type that is no
\* instance of the six named-type classes.
type(t) ==
  IF t.kind = "Scalar" THEN Some(scalar(t))
  ELSE IF t.kind = "Object" THEN Some(object(t))
  ELSE IF t.kind = "Interface" THEN Some(interfaces(t))
  ELSE IF t.kind = "Union" THEN Some(union(t))
  ELSE IF t.kind = "Enum" THEN Some(enumType(t))
  ELSE IF t.kind = "InputObject" THEN Some(inputObject(t))
  ELSE Absent

OperationLine(operation, rootType) ==
  <<"  ">> \o property(<<operation>>) \o <<": ">> \o LinkTo(rootType)

\* Variant of schemaDefinition that ends its block with a newline.
schemaDefinitionNewline(s) ==
  LET operationTypes ==
        (IF s.query # Absent
         THEN <<OperationLine("query", s.query[1])>> ELSE <<>>)
        \o (IF s.mutation # Absent
            THEN <<OperationLine("mutation", s.mutation[1])>> ELSE <<>>)
        \o (IF s.subscription # Absent
            THEN <<OperationLine("subscription", s.subscription[1])>> ELSE <<>>)
  IN keyword(<<"schema">>) \o <<" {", NL>> \o Join(operationTypes, <<NL>>) \o <<NL, "}", NL>>

\* lines 278-297
schemaDefinition(s) ==
  LET operationTypes ==
        (IF s.query # Absent
         THEN <<OperationLine("query", s.query[1])>> ELSE <<>>)
        \o (IF s.mutation # Absent
            THEN <<OperationLine("mutation", s.mutation[1])>> ELSE <<>>)
        \o (IF s.subscription # Absent
            THEN <<OperationLine("subscription", s.subscription[1])>> ELSE <<>>)
  IN keyword(<<"schema">>) \o <<" {", NL>> \o Join(operationTypes, <<NL>>) \o <<NL, "}">>

\* a null element of an array joins as the empty string
TypeBlock(t) == IF type(t) = Absent THEN <<>> ELSE type(t)[1]

TypeName(t) == t.name

DirectiveName(d) == d.name

Range(s) == {s[i] : i \in 1..Len(s)}

TypeNamed(typeMap, typeName) ==
  typeMap[CHOOSE i \in 1..Len(typeMap) : typeMap[i].name = typeName]

\* lines 209-231; the two filters are functions of a name
filteredSchema(s, directiveFilter, typeFilter) ==
  LET Kept(d) == directiveFilter[d.name]
      KeptName(typeName) == typeFilter[typeName]
      directives == SelectSeq(s.directives, Kept)
      typeMap == s.typeMap
      names == SortNames(SelectSeq(Map(typeMap, TypeName), KeptName))
      Lookup(typeName) == TypeNamed(typeMap, typeName)
      types == Map(names, Lookup)
  IN Join(<<schemaDefinition(s)>> \o Map(directives, directive) \o Map(types, TypeBlock),
          <<NL, NL>>) \o <<NL>>

\* lines 274-276
schema(s) ==
  filteredSchema(s,
                 [n \in Range(Map(s.directives, DirectiveName)) |-> ~isSpecDirective(n)],
                 [n \in Range(Map(s.typeMap, TypeName)) |-> isDefinedType(n)])

\* lines 124-137: a string is truthy unless it is empty
getSections(x) ==
  LET definition == IF x.kind = "Schema" THEN Some(schema(x)) ELSE type(x)
  IN IF definition # Absent /\ definition[1] # <<>>
     THEN Some([title |-> title,
                description |-> <<"<pre class=\"code\">">> \o definition[1] \o <<"</pre>">>])
     ELSE Absent

----------------------------------------------------------------------------
(* The schema model (graphql-js objects as the printer reads them) *)

NamedType(kind, name, description) ==
  [kind |-> kind, name |-> name, description |-> description,
   fields |-> <<>>, interfaces |-> <<>>, types |-> <<>>, values |-> <<>>]

Ref(name, description) == [wraps |-> <<>>, name |-> name, description |-> description]

Field(name, description, arguments, t, deprecationReason) ==
  [name |-> name, description |-> description, args |-> arguments, type |-> t,
   deprecationReason |-> deprecationReason]

Argument(name, t, defaultValue) == [name |-> name, type |-> t, defaultValue |-> defaultValue]

EnumValue(name, description, deprecationReason) ==
  [name |-> name, description |-> description, deprecationReason |-> deprecationReason]

Directive(name, arguments, locations) ==
  [name |-> name, args |-> arguments, locations |-> locations]

StringRef == Ref(<<"S","t","r","i","n","g">>, <<>>)

IntRef == Ref(<<"I","n","t">>, <<>>)

IDRef == Ref(<<"I","D">>, <<"A","n"," ","i","d">>)

BooleanRef == Ref(<<"B","o","o","l","e","a","n">>, <<>>)

LongDescription ==
  <<"T","h","e"," ","u","n","i","q","u","e"," ","i","d","e","n","t","i","f",
    "i","e","r"," ","o","f"," ","t","h","e"," ","w","i","d","g","e","t",",",
    " ","s","t","a","b","l","e"," ","a","c","r","o","s","s"," ","a","l","l",
    " ","v","e","r","s","i","o","n","s">>

UseReason == <<"u","s","e"," ","\"","x","\"">>

NodeType ==
  [NamedType("Interface", <<"N","o","d","e">>, <<"A"," ","n","o","d","e">>) EXCEPT
     !.fields = <<Field(<<"i","d">>, LongDescription, <<>>, Wrap("NonNull", IDRef), Absent)>>]

QueryType ==
  [NamedType("Object", <<"Q","u","e","r","y">>, <<>>) EXCEPT
     !.fields = <<Field(<<"n","o","d","e">>, <<"F","i","n","d"," ","a"," ","n","o","d","e">>,
                        <<Argument(<<"i","d">>, Wrap("NonNull", IDRef), Absent),
                          Argument(<<"f","i","r","s","t">>, IntRef, Some(IntValue(10)))>>,
                        NamedRef(NodeType), Absent),
                  Field(<<"a","l","l">>, <<>>,
                        <<Argument(<<"q">>, StringRef, Some(StringValue(<<"a","\"","b">>)))>>,
                        Wrap("NonNull", Wrap("List", Wrap("NonNull", NamedRef(NodeType)))),
                        Some(UseReason))>>]

MutationType ==
  [NamedType("Object", <<"M","u","t","a","t","i","o","n">>, <<>>) EXCEPT
     !.interfaces = <<NamedRef(NodeType)>>,
     !.fields = <<Field(<<"i","d">>, <<>>, <<>>, Wrap("NonNull", IDRef), Absent),
                  Field(<<"o","k">>, <<>>, <<>>, BooleanRef, Some(DEFAULT_DEPRECATION_REASON))>>]

SubscriptionType ==
  [NamedType("Object", <<"S","u","b","s","c","r","i","p","t","i","o","n">>, <<>>) EXCEPT
     !.fields = <<Field(<<"t","i","c","k">>, <<>>, <<>>, IntRef, Some(<<>>))>>]

PetType ==
  [NamedType("Union", <<"P","e","t">>, <<>>) EXCEPT
     !.types = <<NamedRef(QueryType), NamedRef(MutationType)>>]

ColorType ==
  [NamedType("Enum", <<"c","o","l","o","r">>, <<>>) EXCEPT
     !.values = <<EnumValue(<<"R","E","D">>, <<"W","a","r","m">>, Absent),
                  EnumValue(<<"B","L","U","E">>, <<>>, Some(UseReason))>>]

FilterType ==
  [NamedType("InputObject", <<"F","i","l","t","e","r">>, <<>>) EXCEPT
     !.fields = <<Argument(<<"l","i","m","i","t">>, IntRef, Some(IntValue(25))),
                  Argument(<<"d","e","e","p">>, BooleanRef, Some(BooleanValue(TRUE))),
                  Argument(<<"t","a","g","s">>, Wrap("List", StringRef), Absent)>>]

\* The named types a schema's type map is drawn from: user types of the six
\* kinds, the five built-in scalars, an introspection type, and a user type
\* whose name holds "__" after its first character.
TypePool ==
  { QueryType, MutationType, SubscriptionType, NodeType, PetType, ColorType, FilterType,
    NamedType("Scalar", <<"D","a","t","e">>, <<>>),
    NamedType("Scalar", <<"a","_","_","b">>, <<>>),
    NamedType("Scalar", <<"S","t","r","i","n","g">>, <<>>),
    NamedType("Scalar", <<"B","o","o","l","e","a","n">>, <<>>),
    NamedType("Scalar", <<"I","n","t">>, <<>>),
    NamedType("Scalar", <<"F","l","o","a","t">>, <<>>),
    NamedType("Scalar", <<"I","D">>, <<>>),
    [NamedType("Object", <<"_","_","T","y","p","e">>, <<>>) EXCEPT
       !.fields = <<Field(<<"n","a","m","e">>, <<>>, <<>>, StringRef, Absent)>>] }

\* List and NonNull types: GraphQLType values that are no named type.
WrapperTypes ==
  { NamedType("List", <<>>, <<>>), NamedType("NonNull", <<>>, <<>>) }

DirectivePool ==
  { Directive(<<"s","k","i","p">>, <<Argument(<<"i","f">>, Wrap("NonNull", BooleanRef), Absent)>>,
              <<"FIELD", "FRAGMENT_SPREAD", "INLINE_FRAGMENT">>),
    Directive(<<"i","n","c","l","u","d","e">>, <<Argument(<<"i","f">>, Wrap("NonNull", BooleanRef), Absent)>>,
              <<"FIELD", "FRAGMENT_SPREAD", "INLINE_FRAGMENT">>),
    Directive(<<"d","e","p","r","e","c","a","t","e","d">>,
              <<Argument(<<"r","e","a","s","o","n">>, StringRef, Some(StringValue(DEFAULT_DEPRECATION_REASON)))>>,
              <<"FIELD_DEFINITION", "ENUM_VALUE">>),
    Directive(<<"a","u","t","h">>, <<Argument(<<"r","o","l","e">>, StringRef, Absent)>>, <<"FIELD_DEFINITION">>),
    Directive(<<"c","a","c","h","e">>, <<>>, <<"OBJECT", "FIELD_DEFINITION">>) }

\* The sequences of exactly n distinct elements of S.
RECURSIVE Arrangements(_, _)
Arrangements(S, n) ==
  IF n = 0 THEN {<<>>}
  ELSE {Append(p[1], p[2]) :
          p \in {q \in Arrangements(S, n - 1) \X S : q[2] \notin Range(q[1])}}

ArrangementsUpTo(S, n) == UNION {Arrangements(S, k) : k \in 0..n}

RootType(typeMap, name) ==
  IF \E i \in 1..Len(typeMap) : typeMap[i].name = name
  THEN Some(NamedRef(TypeNamed(typeMap, name)))
  ELSE Absent

\* A schema as buildSchema makes it: the root operation types are the types
\* named Query, Mutation and Subscription, where the type map has them.
Schema(typeMap, directives) ==
  [kind |-> "Schema", typeMap |-> typeMap, directives |-> directives,
   query |-> RootType(typeMap, <<"Q","u","e","r","y">>),
   mutation |-> RootType(typeMap, <<"M","u","t","a","t","i","o","n">>),
   subscription |-> RootType(typeMap, <<"S","u","b","s","c","r","i","p","t","i","o","n">>)]

\* Schemas of at most MaxDecls declarations (types and directives), the type
\* map in any key order, the directives in any order.
Schemas ==
  UNION {{Schema(tm, ds) : tm \in Arrangements(TypePool, k),
                           ds \in ArrangementsUpTo(DirectivePool, MaxDecls - k)} :
         k \in 0..MaxDecls}

----------------------------------------------------------------------------
(* Input universes *)

Alphabet == {"a", "b", " "}

RECURSIVE SeqsUpTo(_, _)
SeqsUpTo(S, n) ==
  IF n = 0 THEN {<<>>}
  ELSE LET prev == SeqsUpTo(S, n - 1)
       IN prev \cup {Append(s, x) : s \in {p \in prev : Len(p) = n - 1}, x \in S}

Texts == SeqsUpTo(Alphabet, MaxLen)

Titles == {"GraphQL Schema definition", "Definition"}

Resolvers == {"hash", "html"}

\* Type references: up to MaxDepth wrappers around a named type.
TypeRefs ==
  {[wraps |-> w, name |-> r.name, description |-> r.description] :
     w \in SeqsUpTo({"List", "NonNull"}, MaxDepth), r \in {StringRef, IDRef, NamedRef(NodeType)}}

\* Deprecation reasons: absent, empty, the default text, and other texts.
Reasons ==
  {Absent, Some(DEFAULT_DEPRECATION_REASON)}
    \cup {Some(r) : r \in SeqsUpTo({"x", " ", "\"", "\\"}, MaxReason)}

----------------------------------------------------------------------------
(* State machine: a plugin constructed with a title and a URL resolver     *)
(* (lines 119-122), and one call at a time of one of its operations.       *)

Idle ==
  /\ argText = <<>> /\ argLen = 0 /\ retLines = <<>>
  /\ argType = Absent /\ retLink = <<>>
  /\ argField = Absent /\ retMarker = <<>>
  /\ argInput = Absent /\ retSection = Absent

Init ==
  /\ title \in Titles
  /\ url \in Resolvers
  /\ op = "new"
  /\ Idle

\* The caller takes the result of the finished call; the plugin keeps only
\* its construction-time configuration.
Return ==
  /\ op # "new"
  /\ op' = "new"
  /\ argText' = <<>> /\ argLen' = 0 /\ retLines' = <<>>
  /\ argType' = Absent /\ retLink' = <<>>
  /\ argField' = Absent /\ retMarker' = <<>>
  /\ argInput' = Absent /\ retSection' = Absent
  /\ UNCHANGED config

CallBreakText ==
  \E t \in Texts, width \in 1..MaxWidth :
    /\ op = "new"
    /\ op' = "breakText"
    /\ argText' = t
    /\ argLen' = width
    /\ retLines' = breakText(t, width)
    /\ UNCHANGED <<config, identVars, deprVars, sectionVars>>

CallUseIdentifier ==
  \E t \in TypeRefs :
    /\ op = "new"
    /\ op' = "useIdentifier"
    /\ argType' = Some(t)
    /\ retLink' = useIdentifier(t, ResolveURL(url, t))
    /\ UNCHANGED <<config, breakVars, deprVars, sectionVars>>

CallDeprecated ==
  \E reason \in Reasons :
    /\ op = "new"
    /\ op' = "deprecated"
    /\ argField' = Some(EnumValue(<<"V">>, <<>>, reason))
    /\ retMarker' = deprecated(EnumValue(<<"V">>, <<>>, reason))
    /\ UNCHANGED <<config, breakVars, identVars, sectionVars>>

CallGetSections ==
  \E x \in Schemas \cup TypePool \cup WrapperTypes :
    /\ op = "new"
    /\ op' = "getSections"
    /\ argInput' = Some(x)
    /\ retSection' = getSections(x)
    /\ UNCHANGED <<config, breakVars, identVars, deprVars>>

Next ==
  \/ CallBreakText
  \/ CallUseIdentifier
  \/ CallDeprecated
  \/ CallGetSections
  \/ Return

Spec == Init /\ [][Next]_vars

----------------------------------------------------------------------------
(* Properties of breakText *)

NonEmpty(w) == w # <<>>

\* The words of a text: its maximal runs of non-whitespace characters.
WordsOf(text) == SelectSeq(Split(text), NonEmpty)

\* The whitespace-normalized text: its words separated by single spaces.
Normalized(text) == Join(WordsOf(text), <<" ">>)

SingleLongWord(line, width) ==
  /\ Len(line) > width
  /\ \A k \in 1..Len(line) : line[k] \notin WhiteSpace

\* C1: every line breakText returns, except possibly the last and except a
\* line that is a single word longer than the width, has length <= width.
C1_LinesFitWidth ==
  op = "breakText" =>
    \A i \in 1..Len(retLines) :
      (i < Len(retLines) /\ ~SingleLongWord(retLines[i], argLen)) => Len(retLines[i]) <= argLen

\* C2: a word longer than the width is never split and is alone on its line:
\* the words of the lines are the words of the text, and a line holding a
\* word longer than the width holds nothing else.
C2_LongWordAlone ==
  op = "breakText" =>
    /\ Concat(Map(retLines, WordsOf)) = WordsOf(argText)
    /\ \A i \in 1..Len(retLines) :
         LET ws == WordsOf(retLines[i])
         IN \A k \in 1..Len(ws) : Len(ws[k]) > argLen => retLines[i] = ws[k]

\* C3: the lines joined by single spaces are the whitespace-normalized text;
\* empty input gives no line, and no line is empty.
C3_JoinIsNormalized ==
  op = "breakText" =>
    /\ Join(retLines, <<" ">>) = Normalized(argText)
    /\ (argText = <<>> => retLines = <<>>)
    /\ \A i \in 1..Len(retLines) : retLines[i] # <<>>

----------------------------------------------------------------------------
(* Reading a rendered definition back: its blocks, their kinds and names *)

KwOpen == "<span class=\"keyword operator ts\">"

SpanClose == "</span>"

\* The definition inside the <pre class="code"> ... </pre> of a section.
Body(section) == SubSeq(section.description, 2, Len(section.description) - 1)

\* A block starts where a keyword span opens a line.
BlockStarts(out) ==
  {i \in 1..Len(out) : out[i] = KwOpen /\ (i = 1 \/ out[i - 1] = NL)}

RECURSIVE Ascending(_)
Ascending(S) ==
  IF S = {} THEN <<>>
  ELSE LET least == CHOOSE x \in S : \A y \in S : x <= y
       IN <<least>> \o Ascending(S \ {least})

BlockKind(out, i) == out[i + 1]

NameChars == Range(LowerCase) \cup Range(UpperCase) \cup Range(Digits09) \cup {"_"}

RECURSIVE TakeName(_, _)
TakeName(out, j) ==
  IF j <= Len(out) /\ out[j] \in NameChars THEN <<out[j]>> \o TakeName(out, j + 1) ELSE <<>>

RECURSIVE SkipTo(_, _)
SkipTo(out, j) ==
  IF j <= Len(out) /\ out[j] \notin NameChars THEN SkipTo(out, j + 1) ELSE j

\* The name a block declares: the first run of name characters after its keyword.
BlockName(out, i) == TakeName(out, SkipTo(out, i + 3))

TypeKeywords == {"scalar", "type", "interface", "union", "enum", "input"}

BlocksOfKind(out, kinds) ==
  LET starts == Ascending({i \in BlockStarts(out) : BlockKind(out, i) \in kinds})
  IN [k \in 1..Len(starts) |-> BlockName(out, starts[k])]

Distinct(s) == \A i, j \in 1..Len(s) : i # j => s[i] # s[j]

RenderedSchema == op = "getSections" /\ argInput[1].kind = "Schema" /\ retSection # Absent

BuiltInScalarNames ==
  {<<"S","t","r","i","n","g">>, <<"B","o","o","l","e","a","n">>, <<"I","n","t">>, <<"F","l","o","a","t">>, <<"I","D">>}

UserTypeName(n) ==
  /\ ~(Len(n) >= 2 /\ SubSeq(n, 1, 2) = <<"_", "_">>)
  /\ n \notin BuiltInScalarNames

\* C4: the type blocks of a whole-schema rendering are one block for each
\* type-map name that neither begins with "__" nor is a built-in scalar name,
\* each once, in locale-aware order whatever the order of the type map.
C4_TypeListing ==
  RenderedSchema =>
    LET listed == BlocksOfKind(Body(retSection[1]), TypeKeywords)
    IN /\ Range(listed) = {n \in Range(Map(argInput[1].typeMap, TypeName)) : UserTypeName(n)}
       /\ Distinct(listed)
       /\ \A i, j \in 1..Len(listed) : i < j => localeCompare(listed[i], listed[j]) < 0

\* A schema whose two user types are listed in the opposite of their
\* type-map order.
C4_Witness ==
  /\ RenderedSchema
  /\ Len(argInput[1].typeMap) = 2
  /\ BlocksOfKind(Body(retSection[1]), TypeKeywords)
       = <<argInput[1].typeMap[2].name, argInput[1].typeMap[1].name>>

ReservedDirectiveNames == {<<"s","k","i","p">>, <<"i","n","c","l","u","d","e">>, <<"d","e","p","r","e","c","a","t","e","d">>}

NotReserved(n) == n \notin ReservedDirectiveNames

\* C5: the directive blocks of a whole-schema rendering are the schema's
\* directives other than skip, include and deprecated, each once, in the
\* order of the schema's directive list.
C5_DirectiveListing ==
  RenderedSchema =>
    BlocksOfKind(Body(retSection[1]), {"directive"})
      = SelectSeq(Map(argInput[1].directives, DirectiveName), NotReserved)

\* A schema with a reserved and a custom directive.
C5_Witness ==
  /\ RenderedSchema
  /\ \E i, j \in 1..Len(argInput[1].directives) :
       /\ argInput[1].directives[i].name \in ReservedDirectiveNames
       /\ argInput[1].directives[j].name \notin ReservedDirectiveNames
  /\ Len(BlocksOfKind(Body(retSection[1]), {"directive"})) = 1

----------------------------------------------------------------------------
(* Properties of deprecated, the whole-schema layout, getSections,         *)
(* useIdentifier and union                                                 *)

BareMarker == <<" ", KwOpen, "@deprecated", SpanClose>>

Contains(s, part) ==
  \E i \in 1..(Len(s) - Len(part) + 1) : SubSeq(s, i, i + Len(part) - 1) = part

StartsWith(s, part) == Len(s) >= Len(part) /\ SubSeq(s, 1, Len(part)) = part

\* The marker with a reason clause: " @deprecated(reason: ...)" around the
\* reason as a string literal.
MarkerWithReason(marker, reason) ==
  /\ StartsWith(marker, BareMarker
                          \o <<"(", "<span class=\"variable parameter\">", "reason", SpanClose, ": ">>)
  /\ marker[Len(marker)] = ")"
  /\ Contains(marker, PrintLiteral(StringValue(reason)))

\* C6: deprecated() gives nothing for an absent reason, the bare @deprecated
\* marker for the empty reason and for the default reason text, and
\* @deprecated with a parenthesised, string-literalized reason for any other
\* reason; the three cases exclude each other and cover every reason.
C6_DeprecationMarker ==
  op = "deprecated" =>
    LET reason == argField[1].deprecationReason
    IN /\ (reason = Absent) => retMarker = <<>>
       /\ (reason # Absent /\ reason[1] \in {<<>>, DEFAULT_DEPRECATION_REASON})
            => retMarker = BareMarker
       /\ (reason # Absent /\ reason[1] \notin {<<>>, DEFAULT_DEPRECATION_REASON})
            => MarkerWithReason(retMarker, reason[1])
       /\ Cardinality({c \in {1, 2, 3} :
                          \/ c = 1 /\ retMarker = <<>>
                          \/ c = 2 /\ retMarker = BareMarker
                          \/ c = 3 /\ Len(retMarker) > Len(BareMarker)}) = 1

\* A reason that needs escaping has been rendered with its reason clause.
C6_Witness ==
  /\ op = "deprecated"
  /\ argField[1].deprecationReason = Some(<<"x", "\"">>)
  /\ Contains(retMarker, <<"\"", "x", "\\", "\"", "\"">>)

\* C7: the whole-schema output is the schema-definition block, then the
\* directive blocks, then the type blocks; consecutive blocks are separated
\* by exactly one blank line and the output ends with exactly one newline.
C7_SchemaLayout ==
  RenderedSchema =>
    LET out == Body(retSection[1])
        starts == Ascending(BlockStarts(out))
        nDirectives == Len(SelectSeq(Map(argInput[1].directives, DirectiveName), NotReserved))
        nTypes == Len(SelectSeq(Map(argInput[1].typeMap, TypeName), UserTypeName))
    IN /\ Len(starts) = 1 + nDirectives + nTypes
       /\ starts[1] = 1
       /\ \A k \in 1..Len(starts) :
            BlockKind(out, starts[k]) \in
              (IF k = 1 THEN {"schema"}
               ELSE IF k <= 1 + nDirectives THEN {"directive"}
               ELSE TypeKeywords)
       /\ \A k \in 2..Len(starts) :
            /\ out[starts[k] - 1] = NL
            /\ out[starts[k] - 2] = NL
            /\ out[starts[k] - 3] # NL
       /\ out[Len(out)] = NL
       /\ out[Len(out) - 1] # NL

\* A schema rendered with a directive block and a type block.
C7_Witness ==
  /\ RenderedSchema
  /\ Len(BlocksOfKind(Body(retSection[1]), {"directive"})) = 1
  /\ Len(BlocksOfKind(Body(retSection[1]), TypeKeywords)) = 1

NamedKinds == {"Scalar", "Object", "Interface", "Union", "Enum", "InputObject"}

KindKeyword(kind) ==
  CASE kind = "Schema" -> "schema"
    [] kind = "Scalar" -> "scalar"
    [] kind = "Object" -> "type"
    [] kind = "Interface" -> "interface"
    [] kind = "Union" -> "union"
    [] kind = "Enum" -> "enum"
    [] kind = "InputObject" -> "input"

\* C8: getSections returns null exactly for a single type outside the six
\* named kinds; otherwise a record with the configured title and, as its
\* description, the rendered definition of the schema or type.
C8_GetSections ==
  op = "getSections" =>
    /\ (retSection = Absent) <=> (argInput[1].kind \notin NamedKinds \cup {"Schema"})
    /\ retSection # Absent =>
         /\ retSection[1].title = title
         /\ Head(retSection[1].description) = "<pre class=\"code\">"
         /\ retSection[1].description[Len(retSection[1].description)] = "</pre>"
         /\ StartsWith(Body(retSection[1]), <<KwOpen, KindKeyword(argInput[1].kind), SpanClose>>)

\* getSections has returned null for a List or NonNull type.
C8_Witness == op = "getSections" /\ argInput[1].kind = "List" /\ retSection = Absent

Last(s) == s[Len(s)]

\* C9: useIdentifier renders the name of the named type followed by at most
\* one marker: none without wrappers, else the marker of the innermost
\* wrapper, "[]" for List and "!" for NonNull.
C9_InnermostMarker ==
  op = "useIdentifier" =>
    LET close == CHOOSE i \in 1..Len(retLink) : retLink[i] = "</a>"
        usedAs == SubSeq(retLink, close + 1, Len(retLink))
    IN /\ Cardinality({i \in 1..Len(retLink) : retLink[i] = "</a>"}) = 1
       /\ SubSeq(retLink, close - Len(argType[1].name) - 1, close - 1) = <<"\">">> \o argType[1].name
       /\ usedAs =
            IF argType[1].wraps = <<>> THEN <<>>
            ELSE <<"<span class=\"variable language\">",
                   IF Last(argType[1].wraps) = "List" THEN "[]" ELSE "!",
                   SpanClose>>

\* A NonNull list reference ([T]!) has been rendered with the list marker.
C9_Witness ==
  /\ op = "useIdentifier"
  /\ argType[1].wraps = <<"NonNull", "List">>
  /\ Contains(retLink, <<"[]">>)

\* C10: a union renders as the keyword union, a space, the union's name,
\* " = ", and one linked reference per member type in declared order,
\* separated by " | ".
C10_UnionBlock ==
  (op = "getSections" /\ argInput[1].kind = "Union" /\ retSection # Absent) =>
    \E name \in {argInput[1].name,
                 <<"<span class=\"identifier\">">> \o argInput[1].name \o <<SpanClose>>} :
      Body(retSection[1]) = <<KwOpen, "union", SpanClose, " ">> \o name \o <<" = ">>
                              \o Join(Map(argInput[1].types, LinkTo), <<" | ">>)

====
